---- MODULE Spec2Model ----
(***************************************************************************)
(* A model of app/main.py: the webhook with its secret-token test, the     *)
(* aiogram FSM session of each chat (state and data["action"]), the        *)
(* selection handlers, and process_media, the conversion pipeline          *)
(* (get_file, size check, mkstemp, download, ffmpeg on a pool thread,      *)
(* reply, except handlers), with the temporary files it leaves on disk.    *)
(***************************************************************************)
EXTENDS Integers, Sequences, FiniteSets, TLC

\* ---------------------------------------------------------------- bounds
\* How many random names mkstemp can draw.
MaxNames == 2

\* ------------------------------------------------------ program constants
MAX_FILE_MB == 18

MaxBytes == MAX_FILE_MB * 1024 * 1024

None == "none"
Chats == {1, 2}
RunIds == {1, 2}
Names == 1..MaxNames

\* The action names stored in the FSM data (the values of the maps of
\* select_audio and select_video and of the reply-keyboard handlers).
Ops ==
    {"video_to_circle", "circle_to_video", "audio_from_video",
     "audio_from_circle", "audio_from_voice", "audio_to_voice",
     "media_to_voice"}

\* The content kinds the filter of process_media lets through, and a kind it
\* does not (a photo).
Kinds == {"video", "video_note", "voice", "audio"}
AllKinds == Kinds \cup {"photo"}

\* file_size of the File returned by bot.get_file: NoSize is None.
NoSize == 0 - 1
Sizes == {NoSize, MaxBytes, MaxBytes + 1}

\* A temporary path: the random name mkstemp drew, what the ff_* helpers
\* appended to the stem, and the extension after the last dot.
NoPath == [base |-> 0, marks |-> <<>>, ext |-> ""]

\* ------------------------------------------------------------------ state
VARIABLES
    fsm,        \* chat -> None | "waiting_input"        (FSMContext state)
    data,       \* chat -> None | action name            (FSMContext data["action"])
    pending,    \* the select callback suspended in ensure_subscribed, if any
    runs,       \* run id -> the locals of one process_media call
    disk,       \* the temporary paths that exist
    lastOutcome, \* what the dispatcher did with the update it handled last
    secret      \* SECRET_TOKEN as read from the environment at import

vars == <<fsm, data, pending, runs, disk, lastOutcome, secret>>

IdleRun ==
    [pc |-> "idle", chat |-> 0, action |-> None, kind |-> None,
     suffix |-> "", size |-> NoSize, src |-> NoPath, outs |-> <<>>,
     ffLog |-> <<>>, exc |-> None, payload |-> None, failedAt |-> None,
     nDownload |-> 0, bytes |-> 0, act |-> None, resultSent |-> None,
     doneSent |-> FALSE, errSent |-> <<>>,
     created |-> {}, used |-> {}]

Init ==
    /\ fsm = [c \in Chats |-> None]
    /\ data = [c \in Chats |-> None]
    /\ pending = {}
    /\ runs = [r \in RunIds |-> IdleRun]
    /\ disk = {}
    /\ lastOutcome = None
    /\ secret = ""

\* ---------------------------------------------------------- the event loop
\* A run_ffmpeg that calls _run in the coroutine itself.
FfmpegThreadLoop == "loop"

\* loop.run_in_executor(None, _run): _run, and the subprocess.run in it,
\* execute on a thread of the default pool; the loop only awaits the future.
FfmpegThread == "executor"

\* The thread of the event loop is free to run a handler or to resume a
\* coroutine: no run holds it inside ffmpeg.
LoopFree ==
    \A r \in RunIds : runs[r].pc \in {"ff", "ff_hung"} => FfmpegThread # "loop"

\* ------------------------------------------------------------ FSM storage
\* state.clear(): the state and the data of the chat are both dropped.
Clear(c) ==
    /\ fsm' = [fsm EXCEPT ![c] = None]
    /\ data' = [data EXCEPT ![c] = None]

\* A store that keeps an earlier selection instead of overwriting it.
UpdateDataKeepFirst(c, a) ==
    data' = [data EXCEPT ![c] = IF data[c] = None \/ a = None THEN a ELSE data[c]]

\* state.update_data(action=a)
UpdateData(c, a) ==
    data' = [data EXCEPT ![c] = a]

SetState(c, s) ==
    fsm' = [fsm EXCEPT ![c] = s]

\* ------------------------------------------------------ session handlers
on_start(c) ==
    /\ LoopFree
    /\ Clear(c)
    /\ lastOutcome' = None
    /\ UNCHANGED <<pending, runs, disk, secret>>

OpenMenu(c) ==
    /\ LoopFree
    /\ SetState(c, "waiting_input")
    /\ UpdateData(c, None)
    /\ lastOutcome' = None
    /\ UNCHANGED <<pending, runs, disk, secret>>

cb_audio(c) == OpenMenu(c)

cb_video(c) == OpenMenu(c)

cb_back(c) ==
    /\ LoopFree
    /\ Clear(c)
    /\ lastOutcome' = None
    /\ UNCHANGED <<pending, runs, disk, secret>>

on_text_menu_video(c) == OpenMenu(c)

on_text_menu_audio(c) == OpenMenu(c)

on_text_back(c) ==
    /\ LoopFree
    /\ Clear(c)
    /\ lastOutcome' = None
    /\ UNCHANGED <<pending, runs, disk, secret>>

\* The reply-keyboard function buttons: update_data only, the FSM state is
\* left as it is.
TextSelect(c, a) ==
    /\ LoopFree
    /\ UpdateData(c, a)
    /\ lastOutcome' = None
    /\ UNCHANGED <<fsm, pending, runs, disk, secret>>

on_text_v_to_circle(c) == TextSelect(c, "video_to_circle")

on_text_circle_to_v(c) == TextSelect(c, "circle_to_video")

on_text_a_from_video(c) == TextSelect(c, "audio_from_video")

on_text_a_from_circle(c) == TextSelect(c, "audio_from_circle")

on_text_a_from_voice(c) == TextSelect(c, "audio_from_voice")

on_text_audio_to_voice(c) == TextSelect(c, "audio_to_voice")

on_text_media_to_voice(c) == TextSelect(c, "media_to_voice")

\* ------------------------------------------------- selection callbacks
\* callback_data as <<prefix, rest>>: F.data.startswith("audio:") is
\* d[1] = "audio". The "bogus" entries are data no keyboard of the bot sends.
AudioData ==
    {<<"audio", "from_video">>, <<"audio", "from_circle">>,
     <<"audio", "from_voice">>, <<"audio", "audio_to_voice">>,
     <<"audio", "media_to_voice">>, <<"audio", "bogus">>}

VideoData ==
    {<<"video", "to_circle">>, <<"video", "to_video">>, <<"video", "bogus">>}

\* The dict literal m of select_audio; a key outside it raises KeyError.
AudioMap ==
    [d \in {<<"audio", "from_video">>, <<"audio", "from_circle">>,
            <<"audio", "from_voice">>, <<"audio", "audio_to_voice">>,
            <<"audio", "media_to_voice">>} |->
        CASE d[2] = "from_video" -> "audio_from_video"
          [] d[2] = "from_circle" -> "audio_from_circle"
          [] d[2] = "from_voice" -> "audio_from_voice"
          [] d[2] = "audio_to_voice" -> "audio_to_voice"
          [] OTHER -> "media_to_voice"]

\* The dict literal m of select_video.
VideoMap ==
    [d \in {<<"video", "to_circle">>, <<"video", "to_video">>} |->
        IF d[2] = "to_circle" THEN "video_to_circle" ELSE "circle_to_video"]

\* The handler is entered and suspends in `await ensure_subscribed(...)`.
select_check(c, d) ==
    /\ LoopFree
    /\ pending = {}
    /\ pending' = pending \cup {[chat |-> c, cb |-> d]}
    /\ lastOutcome' = None
    /\ UNCHANGED <<fsm, data, runs, disk, secret>>

select_audio_check(c, d) == d \in AudioData /\ select_check(c, d)

select_video_check(c, d) == d \in VideoData /\ select_check(c, d)

\* ensure_subscribed returned False: the subscribe prompt, nothing stored.
select_not_subscribed(p) ==
    /\ LoopFree
    /\ p \in pending
    /\ pending' = pending \ {p}
    /\ lastOutcome' = None
    /\ UNCHANGED <<fsm, data, runs, disk, secret>>

\* {...}[c.data] raises KeyError, which leaves the handler.
select_key_error(p) ==
    /\ LoopFree
    /\ p \in pending
    /\ p.cb \notin (DOMAIN AudioMap \cup DOMAIN VideoMap)
    /\ pending' = pending \ {p}
    /\ lastOutcome' = "key_error"
    /\ UNCHANGED <<fsm, data, runs, disk, secret>>

select_audio(p) ==
    /\ LoopFree
    /\ p \in pending
    /\ p.cb \in DOMAIN AudioMap
    /\ UpdateData(p.chat, AudioMap[p.cb])
    /\ SetState(p.chat, "waiting_input")
    /\ pending' = pending \ {p}
    /\ lastOutcome' = None
    /\ UNCHANGED <<runs, disk, secret>>

select_video(p) ==
    /\ LoopFree
    /\ p \in pending
    /\ p.cb \in DOMAIN VideoMap
    /\ UpdateData(p.chat, VideoMap[p.cb])
    /\ pending' = pending \ {p}
    /\ lastOutcome' = None
    /\ UNCHANGED <<fsm, runs, disk, secret>>

\* ------------------------------------------------------------ the pipeline
\* The `action == ... and message.<kind>` tests of process_media.
Accepts(a, k) ==
    CASE a = "video_to_circle" -> k = "video"
      [] a = "circle_to_video" -> k = "video_note"
      [] a = "audio_from_video" -> k = "video"
      [] a = "audio_from_circle" -> k = "video_note"
      [] a = "audio_from_voice" -> k = "voice"
      [] a = "audio_to_voice" -> k = "audio"
      [] a = "media_to_voice" -> k \in {"video", "video_note"}
      [] OTHER -> FALSE

\* The suffix each branch hands to tg_download_to_temp.
Suffix(a, mp3) ==
    CASE a = "audio_from_voice" -> ".ogg"
      [] a = "audio_to_voice" -> IF mp3 THEN ".mp3" ELSE ".ogg"
      [] OTHER -> ".mp4"

\* The ff_* helpers each branch awaits, in order.
Pipeline(a) ==
    CASE a = "video_to_circle" -> <<"ff_video_to_circle">>
      [] a = "circle_to_video" -> <<"ff_circle_to_video">>
      [] a = "audio_from_video" -> <<"ff_extract_audio">>
      [] a = "audio_from_circle" -> <<"ff_extract_audio">>
      [] a = "audio_from_voice" -> <<"ff_to_mp3">>
      [] a = "audio_to_voice" -> <<"ff_to_voice">>
      [] a = "media_to_voice" -> <<"ff_extract_audio", "ff_to_voice">>
      [] OTHER -> <<>>

\* A reply that sends every audio result as a voice message.
ReplyKindVoiceForAudio(a) ==
    CASE a = "video_to_circle" -> "video_note"
      [] a = "circle_to_video" -> "video"
      [] a \in Ops -> "voice"
      [] OTHER -> None

\* The answer_* variant each branch replies with.
ReplyKind(a) ==
    CASE a = "video_to_circle" -> "video_note"
      [] a = "circle_to_video" -> "video"
      [] a \in {"audio_from_video", "audio_from_circle", "audio_from_voice"} -> "audio"
      [] a \in {"audio_to_voice", "media_to_voice"} -> "voice"
      [] OTHER -> None

\* src.rsplit(".", 1)[0]: the path without what follows its last dot.
RsplitDot(p) == [base |-> p.base, marks |-> p.marks]

\* dst of each ff_* helper.
FfDst(f, src) ==
    LET stem == RsplitDot(src) IN
    CASE f = "ff_video_to_circle" ->
            [base |-> stem.base, marks |-> Append(stem.marks, "_circle"), ext |-> ".mp4"]
      [] f = "ff_circle_to_video" ->
            [base |-> stem.base, marks |-> Append(stem.marks, "_video"), ext |-> ".mp4"]
      [] f = "ff_to_voice" ->
            [base |-> stem.base, marks |-> stem.marks, ext |-> ".ogg"]
      [] OTHER ->
            [base |-> stem.base, marks |-> stem.marks, ext |-> ".mp3"]

\* tempfile.mkstemp(suffix=suffix): a random name whose path does not exist.
Mkstemp(suffix) ==
    {p \in [base : Names, marks : {<<>>}, ext : {suffix}] : p \notin disk}

\* A check that is off by one: the limit itself is rejected.
SizeRejectedAtLimit(s) == s # NoSize /\ s >= MaxBytes

\* `size is not None and size > MAX_FILE_MB * 1024 * 1024`
SizeRejected(s) == s # NoSize /\ s > MaxBytes

\* The filters of process_media: a kind of the four, in Flow.waiting_input.
FilterMatches(c, k) == k \in Kinds /\ fsm[c] = "waiting_input"

\* A run that reads the FSM data again whenever it needs the action.
RunActionLive(r) == data[runs[r].chat]

\* The action the run works with: the local read once from the FSM data.
RunAction(r) == runs[r].action

\* The frame of a new call: the first unused one of RS.
FreeRun(RS) ==
    {r \in RS : runs[r].pc = "idle" /\ \A q \in RS : q < r => runs[q].pc # "idle"}

\* No handler's filters match: the update is dropped.
media_unhandled(c, k) ==
    /\ LoopFree
    /\ ~FilterMatches(c, k)
    /\ lastOutcome' = "unhandled"
    /\ UNCHANGED <<fsm, data, pending, runs, disk, secret>>

\* `if not action: return`
process_media_no_action(c, k) ==
    /\ LoopFree
    /\ FilterMatches(c, k)
    /\ data[c] = None
    /\ lastOutcome' = "silent"
    /\ UNCHANGED <<fsm, data, pending, runs, disk, secret>>

\* No branch matches: the fallback answer.
process_media_fallback(c, k) ==
    /\ LoopFree
    /\ FilterMatches(c, k)
    /\ data[c] # None
    /\ ~Accepts(data[c], k)
    /\ lastOutcome' = "hint"
    /\ UNCHANGED <<fsm, data, pending, runs, disk, secret>>

\* A pipeline that starts whatever the kind of the media is.
process_media_begin_any_kind(c, k, mp3, RS) ==
    /\ LoopFree
    /\ FilterMatches(c, k)
    /\ data[c] # None
    /\ \E r \in FreeRun(RS) :
        runs' = [runs EXCEPT ![r] =
            [IdleRun EXCEPT !.pc = "fetch", !.chat = c, !.action = data[c],
                            !.kind = k, !.suffix = Suffix(data[c], mp3),
                            !.act = "running"]]
    /\ lastOutcome' = "started"
    /\ UNCHANGED <<fsm, data, pending, disk, secret>>

\* A process_media without the `if not action: return` test: with no
\* operation stored it goes on to the download.
process_media_begin_no_action_test(c, k, mp3, RS) ==
    /\ LoopFree
    /\ FilterMatches(c, k)
    /\ data[c] = None \/ Accepts(data[c], k)
    /\ \E r \in FreeRun(RS) :
        runs' = [runs EXCEPT ![r] =
            [IdleRun EXCEPT !.pc = "fetch", !.chat = c, !.action = data[c],
                            !.kind = k, !.suffix = Suffix(data[c], mp3),
                            !.act = "running"]]
    /\ lastOutcome' = "started"
    /\ UNCHANGED <<fsm, data, pending, disk, secret>>

\* A branch matches: action_loop starts the chat-action task and the run
\* suspends in tg_download_to_temp.
process_media_begin(c, k, mp3, RS) ==
    /\ LoopFree
    /\ FilterMatches(c, k)
    /\ data[c] # None
    /\ Accepts(data[c], k)
    /\ \E r \in FreeRun(RS) :
        runs' = [runs EXCEPT ![r] =
            [IdleRun EXCEPT !.pc = "fetch", !.chat = c, !.action = data[c],
                            !.kind = k, !.suffix = Suffix(data[c], mp3),
                            !.act = "running"]]
    /\ lastOutcome' = "started"
    /\ UNCHANGED <<fsm, data, pending, disk, secret>>

\* An inner try without `finally: act.cancel()`: the exception goes to the
\* except clause and the chat-action task is left running.
RaisedNoFinally(r, type, payload, where) ==
    [runs[r] EXCEPT !.pc = "except", !.exc = type, !.payload = payload,
                    !.failedAt = where]

\* An exception leaves the inner try: `finally: act.cancel()`, then the
\* except clause of process_media that matches it.
Raised(r, type, payload, where) ==
    [runs[r] EXCEPT !.pc = "except", !.exc = type, !.payload = payload,
                    !.failedAt = where, !.act = "cancelled"]

\* bot.get_file raises.
tg_get_file_fails(r) ==
    /\ LoopFree
    /\ runs[r].pc = "fetch"
    /\ runs' = [runs EXCEPT ![r] = Raised(r, "Exception", "network", "get_file")]
    /\ lastOutcome' = None
    /\ UNCHANGED <<fsm, data, pending, disk, secret>>

\* bot.get_file returns, the size is over the limit: HTTPException.
tg_too_large(r, s) ==
    /\ LoopFree
    /\ runs[r].pc = "fetch"
    /\ SizeRejected(s)
    /\ runs' = [runs EXCEPT ![r] =
                    [Raised(r, "HTTPException", "detail", "size") EXCEPT !.size = s]]
    /\ lastOutcome' = None
    /\ UNCHANGED <<fsm, data, pending, disk, secret>>

\* bot.get_file returns, the size passes: mkstemp creates the file and the
\* run suspends in bot.download.
tg_mkstemp(r, s) ==
    /\ LoopFree
    /\ runs[r].pc = "fetch"
    /\ ~SizeRejected(s)
    /\ \E p \in Mkstemp(runs[r].suffix) :
        /\ disk' = disk \cup {p}
        /\ runs' = [runs EXCEPT ![r] =
                [@ EXCEPT !.pc = "download", !.size = s, !.src = p,
                          !.created = @ \cup {p}, !.used = @ \cup {p}]]
    /\ lastOutcome' = None
    /\ UNCHANGED <<fsm, data, pending, secret>>

\* The bytes of the file that Telegram serves: the declared size when there
\* is one, and at or over the ceiling when file_size is None.
FileBytes(s) == IF s = NoSize THEN {MaxBytes, MaxBytes + 1} ELSE {s}

\* A download whose exception is swallowed: the run goes on to transcode.
tg_download_swallow(r, ok) ==
    /\ LoopFree
    /\ runs[r].pc = "download"
    /\ runs' = [runs EXCEPT ![r] =
            IF ok THEN [@ EXCEPT !.pc = "ff", !.nDownload = @ + 1]
            ELSE [@ EXCEPT !.pc = "ff", !.nDownload = @ + 1,
                           !.failedAt = "download"]]
    /\ lastOutcome' = None
    /\ UNCHANGED <<fsm, data, pending, disk, secret>>

\* bot.download(f, destination=path) returns or raises. It writes the whole
\* file, counting nothing: bytes is what the source file holds afterwards.
tg_download(r, ok) ==
    /\ LoopFree
    /\ runs[r].pc = "download"
    /\ \E n \in FileBytes(runs[r].size) :
        runs' = [runs EXCEPT ![r] =
            IF ok THEN [@ EXCEPT !.pc = "ff", !.nDownload = @ + 1, !.bytes = n]
            ELSE [Raised(r, "Exception", "network", "download")
                    EXCEPT !.nDownload = @ + 1]]
    /\ lastOutcome' = None
    /\ UNCHANGED <<fsm, data, pending, disk, secret>>

\* A step that runs ffmpeg again after a failure, raising only the second
\* time.
ff_step_retry(r, ok, wrote) ==
    LET pl == Pipeline(RunAction(r))
        i == Len(runs[r].outs) + 1
        f == pl[i]
        in == IF i = 1 THEN runs[r].src ELSE runs[r].outs[i - 1]
        dst == FfDst(f, in)
        again == ~ok /\ Len(runs[r].ffLog) < i
    IN  /\ runs[r].pc = "ff"
        /\ i <= Len(pl)
        /\ ok => wrote
        /\ disk' = IF wrote THEN disk \cup {dst} ELSE disk
        /\ runs' = [runs EXCEPT ![r] =
              LET done == [(IF ok \/ again THEN runs[r]
                            ELSE Raised(r, "Exception", "stderr", "ffmpeg"))
                           EXCEPT !.ffLog = Append(@, f),
                                  !.used = @ \cup {dst},
                                  !.created = IF wrote THEN @ \cup {dst} ELSE @]
              IN  IF ~ok THEN done
                  ELSE IF i = Len(pl)
                       THEN [done EXCEPT !.outs = Append(@, dst), !.pc = "reply",
                                          !.act = "cancelled"]
                       ELSE [done EXCEPT !.outs = Append(@, dst)]]
        /\ lastOutcome' = None
        /\ UNCHANGED <<fsm, data, pending, secret>>

\* One ff_* helper: run_ffmpeg runs `ffmpeg -y -i src ... dst` once; a
\* non-zero return code raises RuntimeError(stderr). A failed ffmpeg may
\* have written dst already. outs holds what the helpers returned so far
\* (tmp_audio, dst).
ff_step(r, ok, wrote) ==
    LET pl == Pipeline(RunAction(r))
        i == Len(runs[r].outs) + 1
        f == pl[i]
        in == IF i = 1 THEN runs[r].src ELSE runs[r].outs[i - 1]
        dst == FfDst(f, in)
    IN  /\ runs[r].pc = "ff"
        /\ i <= Len(pl)
        /\ ok => wrote
        /\ disk' = IF wrote THEN disk \cup {dst} ELSE disk
        /\ runs' = [runs EXCEPT ![r] =
              LET done == [(IF ok THEN runs[r]
                            ELSE Raised(r, "Exception", "stderr", "ffmpeg"))
                           EXCEPT !.ffLog = Append(@, f),
                                  !.used = @ \cup {dst},
                                  !.created = IF wrote THEN @ \cup {dst} ELSE @]
              IN  IF ~ok THEN done
                  ELSE IF i = Len(pl)
                       THEN [done EXCEPT !.outs = Append(@, dst), !.pc = "reply",
                                          !.act = "cancelled"]
                       ELSE [done EXCEPT !.outs = Append(@, dst)]]
        /\ lastOutcome' = None
        /\ UNCHANGED <<fsm, data, pending, secret>>

\* The ffmpeg of the next ff_* helper never exits: subprocess.run(cmd, ...)
\* is called without a timeout, so the pool thread stays in it and the run
\* stays in `await loop.run_in_executor(None, _run)`; the chat-action task
\* is not cancelled.
ff_hangs(r) ==
    LET pl == Pipeline(RunAction(r))
        i == Len(runs[r].outs) + 1
    IN  /\ runs[r].pc = "ff"
        /\ i <= Len(pl)
        /\ runs' = [runs EXCEPT ![r] =
                [@ EXCEPT !.pc = "ff_hung", !.ffLog = Append(@, pl[i])]]
        /\ lastOutcome' = None
        /\ UNCHANGED <<fsm, data, pending, disk, secret>>

\* send_chat_action or the answer_* of the result raises.
reply_fails(r) ==
    /\ LoopFree
    /\ runs[r].pc = "reply"
    /\ runs' = [runs EXCEPT ![r] = Raised(r, "Exception", "network", "reply")]
    /\ lastOutcome' = None
    /\ UNCHANGED <<fsm, data, pending, disk, secret>>

\* The result is delivered; answer("Готово") is delivered or raises.
reply_result(r, ok) ==
    /\ LoopFree
    /\ runs[r].pc = "reply"
    /\ runs' = [runs EXCEPT ![r] =
            IF ok THEN [@ EXCEPT !.pc = "done", !.doneSent = TRUE,
                                 !.resultSent = ReplyKind(RunAction(r))]
            ELSE [Raised(r, "Exception", "network", "done_msg")
                    EXCEPT !.resultSent = ReplyKind(RunAction(r))]]
    /\ lastOutcome' = None
    /\ UNCHANGED <<fsm, data, pending, disk, secret>>

\* A handler that answers with what the exception carries.
ErrorTextRepr(type, payload) == payload

\* What the except clauses answer: e.detail for HTTPException, a fixed text
\* for any other exception (repr(e) goes to stdout only).
ErrorText(type, payload) == IF type = "HTTPException" THEN payload ELSE "fixed"

\* `except HTTPException` / `except Exception`: one message.answer, taken
\* to reach the user, and the handler returns.
except_handler(r) ==
    /\ LoopFree
    /\ runs[r].pc = "except"
    /\ runs' = [runs EXCEPT ![r] =
            [@ EXCEPT !.pc = "done",
                      !.errSent = Append(@, ErrorText(runs[r].exc, runs[r].payload))]]
    /\ lastOutcome' = None
    /\ UNCHANGED <<fsm, data, pending, disk, secret>>

\* The handlers of chat c that run to their end without a network call
\* between reading and writing the session: /start, the menu callbacks and
\* the reply-keyboard buttons.
ButtonUpdate(c) ==
    \/ on_start(c)
    \/ cb_audio(c)
    \/ cb_video(c)
    \/ cb_back(c)
    \/ on_text_menu_video(c)
    \/ on_text_menu_audio(c)
    \/ on_text_back(c)
    \/ on_text_v_to_circle(c)
    \/ on_text_circle_to_v(c)
    \/ on_text_a_from_video(c)
    \/ on_text_a_from_circle(c)
    \/ on_text_a_from_voice(c)
    \/ on_text_audio_to_voice(c)
    \/ on_text_media_to_voice(c)

\* The handlers of the commands, buttons and callbacks of chat c.
SessionUpdate(c) ==
    \/ ButtonUpdate(c)
    \/ \E d \in AudioData : select_audio_check(c, d)
    \/ \E d \in VideoData : select_video_check(c, d)

\* A media message of chat c, with the calls of process_media in the
\* frames RS.
MediaUpdate(c, RS) ==
    \E k \in AllKinds :
        \/ media_unhandled(c, k)
        \/ process_media_no_action(c, k)
        \/ process_media_fallback(c, k)
        \/ \E mp3 \in BOOLEAN : process_media_begin(c, k, mp3, RS)

\* The handlers of the updates of chat c.
Update(c, RS) ==
    \/ SessionUpdate(c)
    \/ MediaUpdate(c, RS)

Resume ==
    \E p \in pending :
        \/ select_not_subscribed(p)
        \/ select_key_error(p)
        \/ select_audio(p)
        \/ select_video(p)

RunStep(r) ==
    \/ tg_get_file_fails(r)
    \/ \E s \in Sizes : tg_too_large(r, s) \/ tg_mkstemp(r, s)
    \/ \E ok \in BOOLEAN : tg_download(r, ok)
    \/ \E ok, wrote \in BOOLEAN : ff_step(r, ok, wrote)
    \/ ff_hangs(r)
    \/ reply_fails(r)
    \/ \E ok \in BOOLEAN : reply_result(r, ok)
    \/ except_handler(r)

\* One chat and one conversion, every handler and every outcome.
Next ==
    \/ Update(1, {1})
    \/ Resume
    \/ RunStep(1)

Spec == Init /\ [][Next]_vars

\* One chat and one conversion, every outcome of the pipeline, with the
\* commands, menus and reply-keyboard buttons around it and no select
\* callback suspended.
NextConversion ==
    \/ ButtonUpdate(1)
    \/ MediaUpdate(1, {1})
    \/ RunStep(1)

SpecConversion == Init /\ [][NextConversion]_vars

\* Two chats and two conversions that run side by side and succeed: the
\* audio menu of the reply keyboard with its function buttons, and the steps
\* of the pipeline with a file of the ceiling's size and no failure.
NextTwoChats ==
    \/ \E c \in Chats :
        \/ on_text_menu_audio(c)
        \/ on_text_a_from_video(c)
        \/ on_text_a_from_circle(c)
        \/ on_text_a_from_voice(c)
        \/ on_text_audio_to_voice(c)
        \/ on_text_media_to_voice(c)
        \/ \E k \in Kinds : \E mp3 \in BOOLEAN : process_media_begin(c, k, mp3, RunIds)
    \/ \E r \in RunIds :
        \/ tg_mkstemp(r, MaxBytes)
        \/ tg_download(r, TRUE)
        \/ ff_step(r, TRUE, TRUE)
        \/ reply_result(r, TRUE)

SpecTwoChats == Init /\ [][NextTwoChats]_vars

\* Two chats and two conversions that run side by side and succeed, with
\* the video menu of the reply keyboard: its two function buttons and back.
NextTwoChatsVideo ==
    \/ \E c \in Chats :
        \/ on_text_menu_video(c)
        \/ on_text_v_to_circle(c)
        \/ on_text_circle_to_v(c)
        \/ on_text_back(c)
        \/ \E k \in Kinds : process_media_begin(c, k, FALSE, RunIds)
    \/ \E r \in RunIds :
        \/ tg_mkstemp(r, MaxBytes)
        \/ tg_download(r, TRUE)
        \/ ff_step(r, TRUE, TRUE)
        \/ reply_result(r, TRUE)

SpecTwoChatsVideo == Init /\ [][NextTwoChatsVideo]_vars

\* The sessions of two chats on their own: every command, button and
\* callback of both chats, and no media.
NextSessions ==
    \/ \E c \in Chats : SessionUpdate(c)
    \/ Resume

SpecSessions == Init /\ [][NextSessions]_vars

\* One chat and one conversion under the scheduling of the event loop: a
\* run whose awaited call can complete is resumed. The audio menu with two
\* of its function buttons, and every outcome of the pipeline.
NextLive ==
    \/ on_text_menu_audio(1)
    \/ on_text_a_from_voice(1)
    \/ on_text_media_to_voice(1)
    \/ \E k \in Kinds : \E mp3 \in BOOLEAN : process_media_begin(1, k, mp3, {1})
    \/ RunStep(1)

SpecLive == Init /\ [][NextLive]_vars /\ WF_vars(RunStep(1))

\* ------------------------------------------------------------- the webhook
\* The values of SECRET_TOKEN: not set (the default "") or set.
Tokens == {"", "s3cret"}

\* request.headers.get("X-Telegram-Bot-Api-Secret-Token"): None when the
\* header is absent.
Headers == {None, "s3cret", "wrong"}

\* A comparison that lets a request without the header through.
TokenRejectedIfPresent(hdr) == secret # "" /\ hdr # None /\ hdr # secret

\* `if SECRET_TOKEN:` ... `if rtoken != SECRET_TOKEN:`
TokenRejected(hdr) == secret # "" /\ hdr # secret

\* raise HTTPException(status_code=403): the body is not read.
webhook_forbidden(hdr) ==
    /\ LoopFree
    /\ TokenRejected(hdr)
    /\ lastOutcome' = "403"
    /\ UNCHANGED <<fsm, data, pending, runs, disk, secret>>

\* The update of the POST is parsed and fed to the dispatcher.
webhook_feed(hdr, c, RS) ==
    /\ ~TokenRejected(hdr)
    /\ Update(c, RS)

InitWebhook ==
    /\ fsm = [c \in Chats |-> None]
    /\ data = [c \in Chats |-> None]
    /\ pending = {}
    /\ runs = [r \in RunIds |-> IdleRun]
    /\ disk = {}
    /\ lastOutcome = None
    /\ secret \in Tokens

\* The POSTs of one chat with any header, under either configuration, up to
\* the start of a conversion.
NextWebhook ==
    \/ \E hdr \in Headers :
        \/ webhook_forbidden(hdr)
        \/ webhook_feed(hdr, 1, {1})
    \/ Resume

SpecWebhook == InitWebhook /\ [][NextWebhook]_vars

\* ================================================================ claims
InFlight(r) == runs[r].pc \notin {"idle", "done"}

Ended(r) == runs[r].pc = "done"

\* The step is the delivery of a media message of kind k to chat c, whatever
\* the dispatcher does with it. Each of the four records an outcome, which
\* is tested first.
DeliverMedia(c, k) ==
    /\ lastOutcome' # None
    /\ \/ media_unhandled(c, k)
       \/ process_media_no_action(c, k)
       \/ process_media_fallback(c, k)
       \/ \E mp3 \in BOOLEAN : process_media_begin(c, k, mp3, RunIds)

\* C1: once a run of process_media has ended, whatever its outcome, none of
\* the temporary files it created (the downloaded source, the outputs of the
\* ff_* helpers) exists any more.
C1_CleanupInvariant ==
    \A r \in RunIds : Ended(r) => runs[r].created \cap disk = {}

\* C2: a file whose declared size is known and above MAX_FILE_MB*1024*1024
\* fails with the TooLarge error (HTTPException) before any download is
\* issued and before any temporary file is created; a file whose size is
\* unknown or at most the ceiling is not rejected by the check.
C2_SizeCeiling ==
    \A r \in RunIds :
        LET x == runs[r]
            over == x.size # NoSize /\ x.size > MAX_FILE_MB * 1024 * 1024
        IN  /\ over => /\ x.failedAt = "size"
                       /\ x.exc = "HTTPException"
                       /\ x.nDownload = 0
                       /\ x.created = {}
                       /\ x.src = NoPath
            /\ x.failedAt = "size" => over

\* C2 witness: a run whose file is one byte over the ceiling has ended,
\* rejected.
C2_Witness ==
    \E r \in RunIds :
        Ended(r) /\ runs[r].size = MaxBytes + 1 /\ runs[r].failedAt = "size"

\* C3: delivering media of one of the four kinds that the selected
\* operation does not accept leaves the FSM state and the selected operation
\* as they were, starts no run (so no download, no ffmpeg) and touches no
\* file.
C3_KindGating ==
    [][\A c \in Chats : \A k \in Kinds :
          (data[c] # None /\ ~Accepts(data[c], k) /\ DeliverMedia(c, k))
              => UNCHANGED <<fsm, data, runs, disk>>]_vars

\* C3 witness: a wrong-kind media message has just been answered with the
\* fallback, with an operation selected.
C3_Witness ==
    /\ lastOutcome = "hint"
    /\ \E c \in Chats : fsm[c] = "waiting_input" /\ data[c] \in Ops

\* The step is /start or one of the two "back" handlers of chat c.
ClearStep(c) == on_start(c) \/ cb_back(c) \/ on_text_back(c)

\* C5: the selection of a session is one slot, last write wins: every
\* select (a reply-keyboard function button, or a select callback resuming
\* after the subscription check) leaves the current operation equal to the
\* operation selected, whatever it was before (the same operation
\* included), and every clear (/start, back) leaves the current operation
\* and the FSM state empty.
C5_LastWriteWins ==
    [][/\ \A c \in Chats : \A a \in Ops :
            TextSelect(c, a) => data'[c] = a
       /\ \A p \in pending :
            /\ select_audio(p) => data'[p.chat] = AudioMap[p.cb]
            /\ select_video(p) => data'[p.chat] = VideoMap[p.cb]
       /\ \A c \in Chats :
            ClearStep(c) => data'[c] = None /\ fsm'[c] = None]_vars

\* C5 witness: a select callback is about to store an operation over a
\* different one that is selected now.
C5_Witness ==
    \E p \in pending :
        /\ p.cb \in DOMAIN AudioMap
        /\ data[p.chat] \in Ops
        /\ data[p.chat] # AudioMap[p.cb]

\* C6 as stated: a run that ended with a transcode failure invoked exactly
\* one ffmpeg process.
C6_OneProcessPerFailedRun ==
    \A r \in RunIds :
        runs[r].failedAt = "ffmpeg" => Len(runs[r].ffLog) = 1

\* C6 amended: in a run that failed in a transcode, the ffmpeg invocations
\* are the steps of the operation's pipeline in order, each once; all but
\* the last succeeded and the last is the one that failed; so there is one
\* invocation, or two when media_to_voice fails in its second step.
C6_NoRetry ==
    \A r \in RunIds :
        runs[r].failedAt = "ffmpeg" =>
            LET n == Len(runs[r].ffLog)
                pl == Pipeline(runs[r].action)
            IN  /\ n >= 1 /\ n <= Len(pl)
                /\ runs[r].ffLog = SubSeq(pl, 1, n)
                /\ Len(runs[r].outs) = n - 1
                /\ n = 1 \/ (n = 2 /\ runs[r].action = "media_to_voice")

\* C6 witness: media_to_voice failed in ff_to_voice after ff_extract_audio
\* succeeded.
C6_Witness ==
    \E r \in RunIds :
        /\ Ended(r)
        /\ runs[r].failedAt = "ffmpeg"
        /\ runs[r].ffLog = <<"ff_extract_audio", "ff_to_voice">>

\* C7: when a conversion run ends, with a result or with a failure, the
\* session of its chat is cleared (no FSM state, no selected operation).
C7_SessionClearedAfterRun ==
    [][\A r \in RunIds :
          (~Ended(r) /\ runs'[r].pc = "done")
              => /\ fsm'[runs'[r].chat] = None
                 /\ data'[runs'[r].chat] = None]_vars

\* C8: while an operation is selected and the session awaits media, every
\* media message of a kind the operation does not accept, a photo included,
\* is answered with the wrong-kind hint, and the session stays as it was.
C8_WrongKindHint ==
    [][\A c \in Chats : \A k \in AllKinds :
          (/\ DeliverMedia(c, k)
           /\ fsm[c] = "waiting_input"
           /\ data[c] # None
           /\ ~Accepts(data[c], k))
              => /\ lastOutcome' = "hint"
                 /\ fsm'[c] = fsm[c]
                 /\ data'[c] = data[c]]_vars

\* The chat messages of run r that reached the user.
Delivered(r) ==
    (IF runs[r].resultSent # None THEN 1 ELSE 0)
    + (IF runs[r].doneSent THEN 1 ELSE 0)
    + Len(runs[r].errSent)

C10_SelectionSnapshot ==
    \A r \in RunIds :
        runs[r].pc # "idle" =>
            LET n == Len(runs[r].ffLog)
                pl == Pipeline(runs[r].action)
            IN  /\ n <= Len(pl)
                /\ runs[r].ffLog = SubSeq(pl, 1, n)
                /\ runs[r].resultSent \in {None, ReplyKind(runs[r].action)}

\* C10 witness: the run has transcoded by its own operation and is about
\* to reply, while the session already holds another operation.
C10_Witness ==
    \E r \in RunIds :
        /\ runs[r].pc = "reply"
        /\ runs[r].ffLog = Pipeline(runs[r].action)
        /\ data[runs[r].chat] \in Ops \ {runs[r].action}

\* C4: two conversions of different chats that are in flight together use
\* disjoint sets of paths: no path one of them has created, read or written
\* (source, intermediate file, output) is one the other has.
C4_Isolation ==
    \A r1, r2 \in RunIds :
        (/\ r1 # r2
         /\ InFlight(r1)
         /\ InFlight(r2)
         /\ runs[r1].chat # runs[r2].chat)
            => runs[r1].used \cap runs[r2].used = {}
\* C11: a run that succeeded delivered its result, and every result that
\* was delivered went out with the reply variant of the output kind of the
\* run's operation, for an input the operation accepts: a video note for
\* video_to_circle, a video for circle_to_video, an audio for the three
\* to-audio operations, a voice message for audio_to_voice and
\* media_to_voice.
C11_ReplyKind ==
    \A r \in RunIds :
        LET x == runs[r] IN
        /\ (Ended(r) /\ x.failedAt = None) => x.resultSent # None
        /\ x.resultSent # None =>
            /\ Accepts(x.action, x.kind)
            /\ x.action = "video_to_circle" => x.resultSent = "video_note"
            /\ x.action = "circle_to_video" => x.resultSent = "video"
            /\ x.action \in {"audio_from_video", "audio_from_circle",
                             "audio_from_voice"} => x.resultSent = "audio"
            /\ x.action \in {"audio_to_voice", "media_to_voice"}
                    => x.resultSent = "voice"

\* C11 witness: a run of audio_from_voice ended with its result delivered
\* as an audio.
C11_Witness ==
    \E r \in RunIds :
        /\ Ended(r)
        /\ runs[r].failedAt = None
        /\ runs[r].action = "audio_from_voice"
        /\ runs[r].kind = "voice"
        /\ runs[r].resultSent = "audio"

\* Run r is in Transcoding: an ff_* helper is awaited.
Transcoding(r) == runs[r].pc \in {"ff", "ff_hung"}

\* C12: no run stays in Transcoding for ever: a run that is transcoding
\* leaves that stage, with a result or with a failure reported, even when
\* its ffmpeg process does not finish by itself.
C12_TranscodeEnds ==
    \A r \in RunIds : Transcoding(r) ~> ~Transcoding(r)

\* The step is the handling of a POST that carries header hdr.
Post(hdr) ==
    \/ webhook_forbidden(hdr)
    \/ \E c \in Chats : webhook_feed(hdr, c, RunIds)

\* C13: with SECRET_TOKEN set, a POST whose secret-token header is absent
\* or differs from it is answered 403 and nothing of it reaches the
\* dispatcher: no session state, no suspended callback, no run and no file
\* changes.
C13_WebhookAuth ==
    [][\A hdr \in Headers :
          (secret # "" /\ hdr # secret /\ Post(hdr))
              => /\ lastOutcome' = "403"
                 /\ UNCHANGED <<fsm, data, pending, runs, disk>>]_vars

\* C13 witness: a POST has just been refused while the chat has an
\* operation selected and awaits media.
C13_Witness ==
    /\ secret # ""
    /\ lastOutcome = "403"
    /\ \E c \in Chats : fsm[c] = "waiting_input" /\ data[c] \in Ops

\* C14: the updates of one chat take effect in the order they arrived: as
\* long as a select of a registered operation is suspended in its
\* subscription check, no update of the same chat that arrived after it
\* changes the session (FSM state, selected operation) of that chat.
C14_ArrivalOrder ==
    [][\A p \in pending :
          (p.cb \in DOMAIN AudioMap \cup DOMAIN VideoMap /\ p \in pending')
              => /\ fsm'[p.chat] = fsm[p.chat]
                 /\ data'[p.chat] = data[p.chat]]_vars

\* C15: while the run of one chat is in Transcoding, the updates of another
\* chat can be handled: it can open a menu, select any operation, clear its
\* session, start its own conversion with an accepted media message (when a
\* frame is free), and a conversion it has started can fetch, transcode and
\* reply.
C15_NonBlockingTranscode ==
    \A r \in RunIds :
        runs[r].pc = "ff" =>
            \A c \in Chats \ {runs[r].chat} :
                /\ ENABLED on_text_menu_audio(c)
                /\ ENABLED on_text_back(c)
                /\ \A a \in Ops : ENABLED TextSelect(c, a)
                /\ \A k \in Kinds :
                      (FilterMatches(c, k) /\ data[c] # None
                       /\ Accepts(data[c], k) /\ FreeRun(RunIds) # {})
                          => ENABLED process_media_begin(c, k, FALSE, RunIds)
                /\ \A q \in RunIds :
                      runs[q].chat = c =>
                          /\ runs[q].pc = "fetch" => ENABLED tg_mkstemp(q, MaxBytes)
                          /\ runs[q].pc = "download" => ENABLED tg_download(q, TRUE)
                          /\ runs[q].pc = "ff" => ENABLED ff_step(q, TRUE, TRUE)
                          /\ runs[q].pc = "reply" => ENABLED reply_result(q, TRUE)

\* C15 witness: the conversion of one chat has run from its start to its
\* end while the conversion of another chat, started before it, is still in
\* Transcoding.
C15_Witness ==
    /\ runs[1].pc = "ff"
    /\ runs[2].pc = "done"
    /\ runs[2].resultSent # None
    /\ runs[1].chat # runs[2].chat

\* C16: once an operation is selected, by whichever selection handler and
\* from whichever session state, the session awaits media: a media message
\* of a kind the selected operation accepts starts the conversion (the
\* download is invoked).
C16_SelectionAwaitsMedia ==
    [][\A c \in Chats : \A k \in Kinds :
          (data[c] # None /\ Accepts(data[c], k) /\ DeliverMedia(c, k))
              => lastOutcome' = "started"]_vars

\* The stage in which run r failed, if it did.
FailedInFetch(r) == runs[r].failedAt \in {"get_file", "size", "download"}

FailedInTranscode(r) == runs[r].failedAt = "ffmpeg"

ResumeStep(p) ==
    \/ select_not_subscribed(p)
    \/ select_key_error(p)
    \/ select_audio(p)
    \/ select_video(p)

\* C18: a select callback with the 'audio:' or 'video:' prefix whose data
\* names no registered operation leaves the selected operation of its chat
\* as it was and ends inside its handler: no exception leaves the handler.
C18_UnknownOperation ==
    [][\A p \in pending :
          (p.cb \notin DOMAIN AudioMap \cup DOMAIN VideoMap /\ ResumeStep(p))
              => /\ data'[p.chat] = data[p.chat]
                 /\ lastOutcome' # "key_error"]_vars

\* C19: at every moment of a conversion in flight, the temporary files of
\* that run that exist are at most two, one fetched input and one output.
C19_AtMostInputAndOutput ==
    \A r \in RunIds :
        InFlight(r) => Cardinality(runs[r].created \cap disk) <= 2

\* C20: no download completes leaving a source file larger than the
\* ceiling, the files whose declared size is unknown included, and ffmpeg
\* is never invoked on such a file.
C20_CeilingUnknownSize ==
    \A r \in RunIds :
        /\ runs[r].bytes <= MAX_FILE_MB * 1024 * 1024
        /\ runs[r].ffLog # <<>> => runs[r].bytes <= MAX_FILE_MB * 1024 * 1024

\* The input path of the i-th ffmpeg invocation of run r: the downloaded
\* source, then what the helper before returned.
FfInput(r, i) == IF i = 1 THEN runs[r].src ELSE runs[r].outs[i - 1]

\* C21: in every ffmpeg invocation of a run the output path differs from
\* the input path, whichever the operation and the suffix of the source.
C21_OutputDiffersFromInput ==
    \A r \in RunIds :
        \A i \in 1..Len(runs[r].ffLog) :
            FfDst(runs[r].ffLog[i], FfInput(r, i)) # FfInput(r, i)

\* C22: a media message delivered while no operation is selected (the
\* session cleared by /start or back, or a menu opened and no function
\* chosen yet) starts no run, so no download and no ffmpeg, touches no file
\* and leaves the FSM state and the empty selection as they were.
C22_NoOperationNoRun ==
    [][\A c \in Chats : \A k \in AllKinds :
          (data[c] = None /\ DeliverMedia(c, k))
              => /\ UNCHANGED <<fsm, data, runs, disk>>
                 /\ lastOutcome' \in {"unhandled", "silent"}]_vars

\* C22 witness: with a menu open and no function chosen, a media message
\* has just gone through process_media, which returned at once.
C22_Witness ==
    /\ lastOutcome = "silent"
    /\ \E c \in Chats : fsm[c] = "waiting_input" /\ data[c] = None

\* The run has left its inner try block: it is sending the result, is in an
\* except clause of process_media, or process_media has returned.
LeftBlock(r) == runs[r].pc \in {"reply", "except", "done"}

\* C23: once a run has left the fetch/transcode block, by success, by
\* TooLarge, by a failed download or by a failed ffmpeg, its chat-action
\* task is cancelled; no ended run has an indicator task still running.
C23_ActionTaskCancelled ==
    \A r \in RunIds : LeftBlock(r) => runs[r].act = "cancelled"

\* C23 witness: process_media has ended after ffmpeg failed, and the task
\* the run started is cancelled.
C23_Witness ==
    \E r \in RunIds :
        /\ Ended(r)
        /\ runs[r].failedAt = "ffmpeg"
        /\ runs[r].act = "cancelled"

====
